---- MODULE Spec2Model ----
(***************************************************************************)
(* A model of the genz crate: generative type markers tagged with an       *)
(* invariant lifetime ("region").                                          *)
(*                                                                         *)
(* Lifetimes are modelled as numbers.  STATIC is 'static.  Every call of a *)
(* function whose callback is bound by `for<'c>` gives the callback body a *)
(* lifetime of its own (a skolem constant of the higher-ranked bound),     *)
(* drawn from the counter nextLt; the caller instantiates that lifetime    *)
(* (always with 'static in this crate: lifetime.rs:137, gen.rs:45,         *)
(* gen.rs:106).  A frame of the call stack is one running callback body.   *)
(***************************************************************************)
EXTENDS Integers, Sequences, FiniteSets, TLC

VARIABLES
  stack,    \* the running callback bodies, outermost first
  nextLt,   \* the next unused lifetime of a `for<'c>` binder
  gen,      \* the variable `x: Gen<Z>` of the caller: <<>> or <<stored value>>
  written,  \* the field `name` as the callbacks wrote it: <<>>, <<what f built>>
            \* or <<what f built, what with_mut's callbacks last assigned>>
  last,     \* the record of the call that completed last
  prev,     \* the record of the call that completed before it (when tracked)
  inputs,   \* the caller's program: the tuple type arguments it uses,
  bodies,   \*   the values its callbacks return,
  track,    \*   and whether it keeps the result before the last (prev)
  aborted   \* a panic has unwound the thread

vars == <<stack, nextLt, gen, written, last, prev, inputs, bodies, track, aborted>>

---------------------------------------------------------------------------
\* Bounds of the model.
MaxArity == 3      \* tuples of 2..MaxArity descriptors
MaxDepth == 2      \* nesting of callback bodies
MaxExtents == 3    \* `for<'c>` binders entered in one behaviour

\* Program constants.
STATIC == 0        \* the lifetime 'static
MinArity == 2      \* the smallest tuple gen_tuple! is invoked for
MacroArity == 10   \* the largest tuple gen_tuple! is invoked for

\* The type descriptors (TypeId::of) and the field values of the doc tests.
TypeIds == {"u8", "u16", "u32"}
Vals == {"u8", "foo"}
Arities == MinArity..(IF MaxArity < MacroArity THEN MaxArity ELSE MacroArity)
AllTuples == UNION {[1..n -> TypeIds] : n \in Arities}

---------------------------------------------------------------------------
\* lifetime.rs

\* Region<'c>: a zero-sized marker; all it carries is its lifetime.
Region(c) == c

STATIC_REGION == Region(STATIC)

\* Faulty variant: the callback typed at 'static instead of `for<'c>`.
FreshLt_static(n) == STATIC

\* The lifetime the body of a `for<'c>` callback is checked under: one no
\* other binder has.
FreshLt(n) == n

\* Faulty variant: Region covariant in 'c, as Scope is (lifetime.rs:33).
same_region_covariant(a, b) == TRUE

\* fn same_region<'c>(_: Region<'c>, _: Region<'c>): Region is invariant in
\* 'c, so the two arguments are accepted only with one and the same lifetime.
same_region(a, b) == a = b

---------------------------------------------------------------------------
\* gen.rs

GenType(region, ty) == [region |-> region, ty |-> ty]

\* fn same_type<'c, T>(t1: GenType<'c, T>, t2: GenType<'c, T>)
same_type(t1, t2) == same_region(t1.region, t2.region) /\ t1.ty = t2.ty

\* fn different_type<'c, T, U>(t1: GenType<'c, T>, t2: GenType<'c, U>)
different_type(t1, t2) == same_region(t1.region, t2.region)

\* Option<Z> and what a call ends with: None, Some(v), a plain v, or a panic.
None == [kind |-> "none", val |-> <<>>]
Some(v) == [kind |-> "some", val |-> <<v>>]
Plain(v) == [kind |-> "value", val |-> <<v>>]
Panic == [kind |-> "panic", val |-> <<>>]

\* Faulty variant: unwrap_or_default in place of unwrap.
unwrap_or_default(o) ==
  IF o.kind = "some" THEN Plain(o.val[1])
  ELSE Plain([data |-> "u8", markers |-> <<>>, regions |-> {}])

\* Option::unwrap
unwrap(o) == IF o.kind = "some" THEN Plain(o.val[1]) ELSE Panic

RECURSIVE InnerLoop(_, _, _)
InnerLoop(ids, i, j) ==
  IF j > Len(ids) THEN TRUE
  ELSE IF ids[i] = ids[j] THEN FALSE
  ELSE InnerLoop(ids, i, j + 1)

RECURSIVE OuterLoop(_, _)
OuterLoop(ids, i) ==
  IF i > Len(ids) THEN TRUE
  ELSE IF ~InnerLoop(ids, i, i + 1) THEN FALSE
  ELSE OuterLoop(ids, i + 1)

\* Faulty variant: only neighbouring entries are compared.
distinct_adjacent(ids) == \A i \in 1..(Len(ids) - 1) : ids[i] # ids[i + 1]

\* Faulty variant: only the first entry is compared with the others.
distinct_first(ids) == \A j \in 2..Len(ids) : ids[1] # ids[j]

\* StaticTuple::distinct
distinct(ids) == OuterLoop(ids, 1)

\* Faulty variant: the markers are minted without the distinctness check.
try_gen_tuple_unchecked(region, tys) ==
  Some([i \in 1..Len(tys) |-> GenType(region, tys[i])])

\* TryGenTuple::try_gen_tuple
try_gen_tuple(region, tys) ==
  IF distinct(tys)
  THEN Some([i \in 1..Len(tys) |-> GenType(region, tys[i])])
  ELSE None


---------------------------------------------------------------------------
\* Values the callbacks build and return: a datum (the field `name` of the
\* doc tests), the markers embedded in it, and the lifetimes of the Region
\* values it holds.
Value(d, ms, rs) == [data |-> d, markers |-> ms, regions |-> rs]

LtsOf(v) == v.regions \cup {v.markers[i].region : i \in 1..Len(v.markers)}

\* The value of type Z::Generative<'c> as its caller sees it once 'c is
\* instantiated with `inst`.
Instantiate(v, c, inst) ==
  [data |-> v.data,
   markers |-> [i \in 1..Len(v.markers) |->
                 IF v.markers[i].region = c
                 THEN GenType(inst, v.markers[i].ty) ELSE v.markers[i]],
   regions |-> {IF r = c THEN inst ELSE r : r \in v.regions}]

\* Faulty variant: a conversion that rebuilds the struct with a default name.
into_default(v) == [data |-> "u8", markers |-> v.markers, regions |-> v.regions]

\* storable.rs: From<Self::Generative<'static>> for Z (Into::into), with Z
\* the 'static instance of the same struct as in every impl of the crate.
into(v) == [data |-> v.data, markers |-> v.markers, regions |-> v.regions]

\* storable.rs: BorrowMut<Self::Generative<'static>> (borrow, borrow_mut):
\* the stored value seen at Generative<'c> by a callback checked under c.
borrow(v, c) == Instantiate(v, STATIC, c)

\* Faulty variant: the assignment goes to a copy of the stored value.
store_copy(v, d) == v

\* An assignment to `s.name` through the &mut of with_mut.
store(v, d) == [v EXCEPT !.data = d]

---------------------------------------------------------------------------
\* The call stack.

Frame(op, c, tys, ms) ==
  [op |-> op, lt |-> c, inst |-> STATIC, tys |-> tys, markers |-> ms]

Lts(s) == {s[i].lt : i \in 1..Len(s)}

Outer(s) == SubSeq(s, 1, Len(s) - 1)

Top == stack[Len(stack)]

\* Faulty variant: Z bound inside the binder, so it can mention the callback's 'c.
RetLts_own(s) == {STATIC} \cup Lts(s)

\* The lifetimes the result type of the running callback can mention: the
\* type parameter Z (or R) is bound outside `for<'c>`, so 'static and the
\* lifetimes of the enclosing bodies, never the callback's own.
RetLts(s) == {STATIC} \cup Lts(Outer(s))

RetValues(s) == {v \in bodies : v.regions \subseteq RetLts(s)}

TupleOps == {"try_with_types", "with_types", "try_from_types", "from_types"}
FromOps == {"from_type", "try_from_types", "from_types"}
PlainOps == {"with_region", "with_type", "try_with_types", "with_types", "with_mut"}
TryOps == {"try_with_types", "try_from_types"}
UnwrapOps == {"with_types", "from_types"}

Active(ops) == \E i \in 1..Len(stack) : stack[i].op \in ops

CanCall == ~aborted /\ nextLt <= MaxExtents /\ Len(stack) < MaxDepth

\* The record of a completed call.
Rec(op, tys, c, out, bodyRet, bodyCalls, checked, ms) ==
  [op |-> op, tys |-> tys, lt |-> c, out |-> out, bodyRet |-> bodyRet,
   bodyCalls |-> bodyCalls, checked |-> checked, minted |-> ms]

NoRec == Rec("none", <<>>, STATIC, Panic, <<>>, 0, FALSE, <<>>)

Complete(r) == last' = r /\ prev' = IF track THEN last ELSE prev

\* The callback body starts running under its own lifetime c.
Enter(op, c, tys, ms) ==
  /\ stack' = Append(stack, Frame(op, c, tys, ms))
  /\ nextLt' = nextLt + 1
  /\ UNCHANGED <<gen, written, last, prev, inputs, bodies, track, aborted>>

\* The callback body has returned; its caller holds the result.
Leave(r) ==
  /\ Complete(r)
  /\ stack' = Outer(stack)
  /\ UNCHANGED <<nextLt, inputs, bodies, track, aborted>>

\* A call that ends without running the callback: nothing is pushed, and a
\* panic unwinds the callbacks that were running.
Skip(r) ==
  /\ Complete(r)
  /\ nextLt' = nextLt + 1
  /\ aborted' = (r.out.kind = "panic")
  /\ stack' = IF r.out.kind = "panic" THEN <<>> ELSE stack
  /\ UNCHANGED <<gen, written, inputs, bodies, track>>

---------------------------------------------------------------------------
\* The operations, up to the point where the callback starts running.

\* lifetime.rs: with_region(f) = f(Region::<'static>(PhantomData)), f checked
\* for an arbitrary 'c.
with_region ==
  /\ CanCall
  /\ Enter("with_region", FreshLt(nextLt), <<>>, <<>>)

\* Faulty variant: the marker minted in STATIC_REGION, not in the call's region.
with_type_static ==
  /\ CanCall
  /\ \E u \in TypeIds :
       Enter("with_type", FreshLt(nextLt), <<u>>, <<GenType(STATIC_REGION, u)>>)

\* with_region(|region| f(GenType(region, PhantomData)))
with_type ==
  /\ CanCall
  /\ \E u \in TypeIds :
       LET c == FreshLt(nextLt)
       IN  Enter("with_type", c, <<u>>, <<GenType(Region(c), u)>>)

\* with_region(|region| Types::try_gen_tuple(region).map(|types| f(region, types)))
try_with_types ==
  /\ CanCall
  /\ \E tys \in inputs :
       LET c == FreshLt(nextLt)
           t == try_gen_tuple(Region(c), tys)
       IN  IF t.kind = "some"
           THEN Enter("try_with_types", c, tys, t.val[1])
           ELSE Skip(Rec("try_with_types", tys, c, None, <<>>, 0, TRUE, <<>>))

\* try_with_types(f).unwrap()
with_types ==
  /\ CanCall
  /\ \E tys \in inputs :
       LET c == FreshLt(nextLt)
           t == try_gen_tuple(Region(c), tys)
       IN  IF t.kind = "some"
           THEN Enter("with_types", c, tys, t.val[1])
           ELSE Skip(Rec("with_types", tys, c, unwrap(None), <<>>, 0, TRUE, <<>>))

\* The borrow rules on the variable x that holds the Gen: it is assigned while
\* no callback borrows it, borrowed mutably while nothing else borrows it.
CanAssign == ~Active(FromOps \cup {"with_ref", "with_mut"})
CanBorrow == gen # <<>> /\ ~Active({"with_mut"})
CanBorrowMut == gen # <<>> /\ ~Active({"with_ref", "with_mut"})

\* Gen::from_type: Self::from_fn(|region| f(GenType(region, PhantomData))),
\* from_fn(f) = Gen(f(STATIC_REGION).into()), f checked for an arbitrary 'c.
from_type ==
  /\ CanCall /\ CanAssign
  /\ \E u \in TypeIds :
       LET c == FreshLt(nextLt)
       IN  Enter("from_type", c, <<u>>, <<GenType(Region(c), u)>>)

\* Gen::try_from_types: Self::try_from_fn(|region|
\*   Types::try_gen_tuple(region).map(|types| f(region, types)))
try_from_types ==
  /\ CanCall /\ CanAssign
  /\ \E tys \in inputs :
       LET c == FreshLt(nextLt)
           t == try_gen_tuple(Region(c), tys)
       IN  IF t.kind = "some"
           THEN Enter("try_from_types", c, tys, t.val[1])
           ELSE Skip(Rec("try_from_types", tys, c, None, <<>>, 0, TRUE, <<>>))

\* Gen::from_types: Self::try_from_types(f).unwrap()
from_types ==
  /\ CanCall /\ CanAssign
  /\ \E tys \in inputs :
       LET c == FreshLt(nextLt)
           t == try_gen_tuple(Region(c), tys)
       IN  IF t.kind = "some"
           THEN Enter("from_types", c, tys, t.val[1])
           ELSE Skip(Rec("from_types", tys, c, unwrap(None), <<>>, 0, TRUE, <<>>))

\* Gen::with_ref: f(self.0.borrow())
with_ref ==
  /\ CanCall /\ CanBorrow
  /\ Enter("with_ref", FreshLt(nextLt), <<>>, <<>>)

\* Gen::with_mut: f(self.0.borrow_mut())
with_mut ==
  /\ CanCall /\ CanBorrowMut
  /\ Enter("with_mut", FreshLt(nextLt), <<>>, <<>>)

---------------------------------------------------------------------------
\* The callbacks, and the rest of each operation once its callback returns.

\* What the operation makes of its callback's result.
Wrap(op, v) ==
  IF op \in TryOps THEN Some(v)
  ELSE IF op \in UnwrapOps THEN unwrap(Some(v))
  ELSE Plain(v)

\* The callback of with_region, with_type, try_with_types, with_types or
\* with_mut returns a value of type Z.
Return ==
  /\ stack # <<>> /\ Top.op \in PlainOps
  /\ \E v \in RetValues(stack) :
       Leave(Rec(Top.op, Top.tys, Top.lt, Wrap(Top.op, v), <<v>>, 1,
                 Top.op \in TupleOps, Top.markers))
  /\ UNCHANGED <<gen, written>>

\* The callback of from_type, try_from_types or from_types returns the struct
\* it built around the markers it was handed; the operation stores it.
ReturnBuilt ==
  /\ stack # <<>> /\ Top.op \in FromOps
  /\ \E d \in {v.data : v \in bodies} :
       LET built == Value(d, Top.markers, {})
           stored == into(Instantiate(built, Top.lt, Top.inst))
       IN  /\ gen' = <<stored>>
           /\ written' = <<d>>
           /\ Leave(Rec(Top.op, Top.tys, Top.lt, Wrap(Top.op, stored), <<built>>, 1,
                        Top.op \in TupleOps, Top.markers))

\* The callback of with_ref reads the field back and returns it.
ReturnRead ==
  /\ stack # <<>> /\ Top.op = "with_ref"
  /\ LET v == Value(borrow(gen[1], Top.lt).data, <<>>, {})
     IN  Leave(Rec(Top.op, Top.tys, Top.lt, Wrap(Top.op, v), <<v>>, 1, FALSE, Top.markers))
  /\ UNCHANGED <<gen, written>>

\* The callback of with_mut assigns the field through its &mut.
Write ==
  /\ stack # <<>> /\ Top.op = "with_mut"
  /\ \E d \in Vals :
       /\ d # gen[1].data
       /\ gen' = <<store(gen[1], d)>>
       /\ written' = <<written[1], d>>
  /\ UNCHANGED <<stack, nextLt, last, prev, inputs, bodies, track, aborted>>

Next ==
  \/ with_region \/ with_type \/ try_with_types \/ with_types
  \/ from_type \/ try_from_types \/ from_types \/ with_ref \/ with_mut
  \/ Return \/ ReturnBuilt \/ ReturnRead \/ Write

\* Plain data, or a struct around one Region value.
AllValues ==
  {Value(d, <<>>, rs) : d \in Vals,
                        rs \in {{}} \cup {{Region(c)} : c \in {STATIC} \cup 1..MaxExtents}}

\* A caller that uses the two tuple types of the doc tests (gen.rs:177, 189)
\* and any callback.
Init ==
  /\ stack = <<>>
  /\ nextLt = 1
  /\ gen = <<>>
  /\ written = <<>>
  /\ last = NoRec
  /\ prev = NoRec
  /\ inputs = {<<"u8", "u16">>, <<"u8", "u16", "u8">>}
  /\ bodies = AllValues
  /\ track = FALSE
  /\ aborted = FALSE

Spec == Init /\ [][Next]_vars

---------------------------------------------------------------------------
\* A caller that makes the tuple operations one after the other, on a tuple
\* type and a permutation of it (any tuple type of the bounded arities), with
\* one callback, and keeps the results of its last two calls.

Count(t, x) == Cardinality({i \in 1..Len(t) : t[i] = x})

IsPermutation(t, p) == Len(t) = Len(p) /\ \A x \in TypeIds : Count(t, x) = Count(p, x)

InitTuples ==
  /\ stack = <<>>
  /\ nextLt = 1
  /\ gen = <<>>
  /\ written = <<>>
  /\ last = NoRec
  /\ prev = NoRec
  /\ inputs \in {{t, p} : t \in AllTuples, p \in AllTuples}
  /\ \A t \in inputs, p \in inputs : IsPermutation(t, p)
  /\ bodies \in {{v} : v \in {w \in AllValues : w.regions \subseteq {STATIC}}}
  /\ track = TRUE
  /\ aborted = FALSE

NextTuples ==
  \/ stack = <<>> /\ try_with_types
  \/ stack = <<>> /\ with_types
  \/ stack = <<>> /\ try_from_types
  \/ stack = <<>> /\ from_types
  \/ Return
  \/ ReturnBuilt

SpecTuples == InitTuples /\ [][NextTuples]_vars

---------------------------------------------------------------------------
\* Properties.

\* Some unordered pair of entries of the tuple is equal.
HasDuplicate(tys) == \E i, j \in 1..Len(tys) : i < j /\ tys[i] = tys[j]

DuplicatePairs(tys) == {<<i, j>> \in (1..Len(tys)) \X (1..Len(tys)) : i < j /\ tys[i] = tys[j]}

\* One marker per descriptor, in the order of the descriptors, all of extent c.
MarkersFor(ms, tys, c) ==
  /\ Len(ms) = Len(tys)
  /\ \A i \in 1..Len(tys) : ms[i].ty = tys[i] /\ ms[i].region = c

Frames(ops) == {k \in 1..Len(stack) : stack[k].op \in ops}

\* C1: try_with_types returns None exactly when two entries of the tuple are
\* equal; otherwise its callback runs (once) with one marker per descriptor,
\* the marker at position i carrying descriptor i and every marker carrying
\* the extent that call opened, and the call returns Some.
C1_DistinctnessCorrect ==
  /\ last.op = "try_with_types" =>
       /\ Len(last.tys) \in MinArity..MacroArity
       /\ last.out.kind \in {"none", "some"}
       /\ last.out.kind = "none" <=> HasDuplicate(last.tys)
       /\ last.out.kind = "some" =>
            /\ last.bodyCalls = 1
            /\ MarkersFor(last.minted, last.tys, Region(last.lt))
  /\ \A k \in Frames({"try_with_types"}) :
       /\ ~HasDuplicate(stack[k].tys)
       /\ MarkersFor(stack[k].markers, stack[k].tys, Region(stack[k].lt))

C1_Witness ==
  /\ last.op = "try_with_types"
  /\ last.out.kind = "some"
  /\ Len(last.tys) = 3
  /\ Len(last.minted) = 3

\* C2: a tuple request mints no marker or one per descriptor, never a number
\* in between; on a tuple with a duplicate (one equal pair or several) the
\* callback is not invoked and no marker is minted.
C2_NoPartialMint ==
  /\ last.op \in TupleOps =>
       /\ Len(last.minted) \in {0, Len(last.tys)}
       /\ HasDuplicate(last.tys) =>
            last.bodyCalls = 0 /\ last.bodyRet = <<>> /\ last.minted = <<>>
  /\ \A k \in Frames(TupleOps) :
       ~HasDuplicate(stack[k].tys) /\ Len(stack[k].markers) = Len(stack[k].tys)

C2_Witness ==
  /\ last.op \in {"try_with_types", "try_from_types"}
  /\ Cardinality(DuplicatePairs(last.tys)) > 1
  /\ last.bodyCalls = 0
  /\ last.out.kind = "none"

\* The relation of a fail-fast call a to the try call b of the same tuple and
\* callback.
FailFast(a, b) ==
  /\ a.out.kind \in {"panic", "value"}
  /\ a.out.kind = "panic" <=> b.out.kind = "none"
  /\ b.out.kind = "some" => a.out = Plain(b.out.val[1])

FailFastPair(a, b) ==
  /\ a.tys = b.tys
  /\ \/ a.op = "with_types" /\ b.op = "try_with_types"
     \/ a.op = "from_types" /\ b.op = "try_from_types"

\* C3: with_types panics exactly when try_with_types of the same tuple returns
\* None and otherwise returns the payload of its Some; likewise from_types and
\* try_from_types.
C3_FailFastEquivalence ==
  /\ FailFastPair(last, prev) => FailFast(last, prev)
  /\ FailFastPair(prev, last) => FailFast(prev, last)

C3_Witness ==
  /\ prev.op = "try_with_types" /\ prev.out.kind = "none"
  /\ last.op = "with_types" /\ last.tys = prev.tys
  /\ aborted

\* A callback of with_ref returns to its caller.
ReadReturns ==
  /\ stack # <<>> /\ Top.op = "with_ref"
  /\ stack' = Outer(stack) /\ ~aborted'

\* C4: every with_ref returns the field as f built it or, after a with_mut
\* that assigned it, as last assigned; with_ref leaves the stored value as it
\* is.
C4_StorableRoundTrip ==
  [][ReadReturns =>
       /\ last'.out = Plain(Value(written[Len(written)], <<>>, {}))
       /\ gen' = gen]_vars

C4_Witness ==
  /\ last.op = "with_ref"
  /\ Len(written) = 2 /\ written[1] # written[2]
  /\ last.out.val[1].data = written[2]

RegionOps == {"with_region", "with_type"}

\* No function that takes two markers (or regions) of one lifetime accepts a
\* marker of each.
Rejected(ms1, ms2) ==
  \A i \in 1..Len(ms1), j \in 1..Len(ms2) :
    ~same_type(ms1[i], ms2[j]) /\ ~different_type(ms1[i], ms2[j])

\* C5: two invocations of with_region or with_type, nested or one after the
\* other, have different extents, also with the same type argument, and no
\* function over one extent accepts a marker of each.
C5_ExtentsNotInterchangeable ==
  /\ \A i, j \in Frames(RegionOps) :
       i < j => /\ stack[i].lt # stack[j].lt
                /\ ~same_region(Region(stack[i].lt), Region(stack[j].lt))
                /\ Rejected(stack[i].markers, stack[j].markers)
  /\ \A k \in Frames(RegionOps) :
       last.op \in RegionOps =>
         /\ last.lt # stack[k].lt
         /\ ~same_region(Region(last.lt), Region(stack[k].lt))
         /\ Rejected(last.minted, stack[k].markers)

C5_Witness ==
  /\ Len(stack) = 2
  /\ stack[1].op = "with_type" /\ stack[2].op = "with_type"
  /\ stack[1].tys = stack[2].tys
  /\ last.op = "with_type" /\ last.tys = stack[1].tys

\* The stored form of the struct a callback built under extent c: the same
\* field, the same descriptors in the same order, the root extent throughout.
ErasedFrom(stored, built) ==
  /\ stored.data = built.data
  /\ MarkersFor(stored.markers,
                [i \in 1..Len(built.markers) |-> built.markers[i].ty], STATIC_REGION)
  /\ stored.regions \subseteq {STATIC_REGION}

C6_State ==
  /\ last.op = "try_from_types" =>
       /\ last.out.kind \in {"none", "some"}
       /\ last.out.kind = "none" <=> HasDuplicate(last.tys)
       /\ last.out.kind = "none" => last.bodyCalls = 0 /\ last.bodyRet = <<>>
       /\ last.out.kind = "some" =>
            /\ last.bodyCalls = 1
            /\ MarkersFor(last.minted, last.tys, Region(last.lt))
            /\ last.bodyRet[1].markers = last.minted
            /\ ErasedFrom(last.out.val[1], last.bodyRet[1])
            /\ gen = <<last.out.val[1]>>
  /\ \A k \in Frames({"try_from_types"}) :
       /\ ~HasDuplicate(stack[k].tys)
       /\ MarkersFor(stack[k].markers, stack[k].tys, Region(stack[k].lt))

\* C6: try_from_types returns None exactly when the tuple has a duplicate,
\* then without invoking f and without a stored value coming to be; on a
\* distinct tuple f runs once with the extent and the marker tuple and the
\* stored value returned holds what f built.
C6_TryFromTypes ==
  /\ []C6_State
  /\ [][(last' # last /\ last'.op = "try_from_types" /\ last'.out.kind = "none")
          => gen' = gen /\ stack' = stack]_vars

C6_Witness ==
  /\ last.op = "try_from_types"
  /\ last.out.kind = "some"
  /\ Len(last.tys) = 3
  /\ gen # <<>> /\ Len(gen[1].markers) = 3

\* The extents a value reachable now may carry: the root extent and the
\* extents of the callbacks still running.
LiveLts == {STATIC} \cup Lts(stack)

\* C7: the extent handed to a callback of an extent-opening operation is not in
\* what the callback returns, and whatever a completed call has left behind
\* (its result, the stored value) carries only the root extent or the extent of
\* a callback that is still running; with no call active, only the root extent.
C7_ExtentDoesNotEscape ==
  /\ \A i \in 1..Len(last.out.val) : LtsOf(last.out.val[i]) \subseteq LiveLts
  /\ (last.op \in PlainOps \cup {"with_ref"}) =>
       \A i \in 1..Len(last.bodyRet) : Region(last.lt) \notin LtsOf(last.bodyRet[i])
  /\ \A i \in 1..Len(gen) : LtsOf(gen[i]) \subseteq {STATIC}
  /\ last.lt \notin Lts(stack)

C7_Witness ==
  /\ Len(stack) = 1
  /\ last.op = "with_region"
  /\ last.out.val[1].regions = {Region(stack[1].lt)}

TotalOps == {"with_region", "with_type", "from_type", "with_ref", "with_mut"}

\* C8: with_region, with_type, Gen::from_type, with_ref and with_mut end with
\* a value, never None or a panic, without the distinctness check, having run
\* their callback once, and return what it returned (from_type: stored);
\* with_type hands its callback one marker, of the requested type and of the
\* extent the call opened.
C8_Totality ==
  /\ last.op \in TotalOps =>
       /\ last.out.kind = "value"
       /\ ~last.checked
       /\ last.bodyCalls = 1 /\ Len(last.bodyRet) = 1
       /\ last.op # "from_type" => last.out.val = last.bodyRet
       /\ last.op = "from_type" => ErasedFrom(last.out.val[1], last.bodyRet[1])
       /\ last.op = "with_type" =>
            /\ Len(last.tys) = 1
            /\ MarkersFor(last.minted, last.tys, Region(last.lt))
            /\ last.lt # STATIC
  /\ \A k \in Frames({"with_type"}) :
       /\ Len(stack[k].tys) = 1
       /\ MarkersFor(stack[k].markers, stack[k].tys, Region(stack[k].lt))
       /\ \A j \in 1..Len(stack) : j # k => stack[j].lt # stack[k].lt

C8_Witness ==
  /\ last.op = "with_type"
  /\ last.out.kind = "value"
  /\ last.bodyCalls = 1
  /\ Len(last.minted) = 1
  /\ stack = <<>>

\* C9: the verdict of distinct is the same for a tuple and every permutation
\* of it; try_with_types of a permutation of a distinct tuple returns Some as
\* well, its markers in the order of the permuted tuple.
C9_OrderIndependence ==
  /\ \A t \in inputs, p \in inputs : IsPermutation(t, p) => distinct(t) = distinct(p)
  /\ (/\ last.op = "try_with_types" /\ prev.op = "try_with_types"
      /\ IsPermutation(prev.tys, last.tys)) =>
       /\ last.out.kind = prev.out.kind
       /\ last.out.kind = "some" =>
            /\ MarkersFor(last.minted, last.tys, Region(last.lt))
            /\ MarkersFor(prev.minted, prev.tys, Region(prev.lt))

C9_Witness ==
  /\ last.op = "try_with_types" /\ prev.op = "try_with_types"
  /\ last.tys # prev.tys /\ IsPermutation(prev.tys, last.tys)
  /\ Len(last.tys) = 3
  /\ last.out.kind = "some" /\ prev.out.kind = "some"

StoreOps == {"from_type", "with_ref", "with_mut"}

C10_State ==
  /\ \A k \in Frames(StoreOps) :
       /\ stack[k].lt # STATIC
       /\ \A j \in 1..Len(stack) : j # k => stack[j].lt # stack[k].lt
       /\ stack[k].lt # last.lt
       /\ \A i \in 1..Len(stack[k].markers) : stack[k].markers[i].region = Region(stack[k].lt)
  /\ \A i \in 1..Len(gen) : LtsOf(gen[i]) \subseteq {STATIC}

\* C10: the callback of Gen::from_type runs under an extent of its own, other
\* than the root extent and than that of every other call, and its marker is
\* of that extent; the value is stored, in its root-extent form, in the step
\* in which that callback returns and not before; the callbacks of with_ref
\* and with_mut run under an extent of their own as well.
C10_StoreAfterFreshExtent ==
  /\ []C10_State
  /\ [][gen' # gen =>
          /\ stack # <<>>
          /\ \/ Top.op = "with_mut" /\ stack' = stack
             \/ /\ Top.op \in FromOps /\ stack' = Outer(stack)
                /\ last'.lt = Top.lt
                /\ Len(gen') = 1 /\ ErasedFrom(gen'[1], last'.bodyRet[1])]_vars

C10_Witness ==
  /\ stack # <<>> /\ Top.op = "from_type"
  /\ gen = <<>>
  /\ Top.lt \notin {STATIC, last.lt}
  /\ last.op = "with_region"

====
